---------------------------- MODULE Spec2Model ----------------------------
(***************************************************************************)
(* A model of src/popup.js, the popup page of the Gerrit monitor          *)
(* extension: the widget tree (PopupWidget, SectionWidget,                 *)
(* ChangelistWidget), the overlay / login / permissions visibility         *)
(* plumbing, and the promise chain started by onLoaded.                    *)
(*                                                                         *)
(* Text is modelled as a sequence of tokens, so that String.includes is a  *)
(* real substring search.  A style.display property is modelled by the     *)
(* boolean "is not 'none'".                                                *)
(***************************************************************************)
EXTENDS Integers, Sequences, FiniteSets

VARIABLES
  pc,            \* position of the chain started by onLoaded
  dom,           \* the popup page: display flags, overlay text, children
  loading,       \* browser.displayLoading() has been called
  instances,     \* the instances the first allowed-hosts fetch resolved with
  message,       \* the comm.sendMessage request in flight
  results,       \* the category map of the wrapped SearchResults
  widget,        \* PopupWidget.sections_
  steps,         \* history: the steps of the chain, in the order started
  failedAt,      \* history: the step whose promise was rejected
  caught,        \* history: the argument displayError was called with
  errorCalls,    \* history: number of calls of displayError
  overlayCalls,  \* history: setOverlayVisible has been called
  loginFetch,    \* the second allowed-hosts fetch (login links)
  loginInstances,\* what the second allowed-hosts fetch resolved with
  toggleCalls,   \* toggle specification: calls of setOverlayVisible so far
  toggleArg,     \* toggle specification: the argument of those calls
  snap           \* toggle specification: the display flags after call one

vars == <<pc, dom, loading, instances, message, results, widget, steps,
          failedAt, caught, errorCalls, overlayCalls, loginFetch,
          loginInstances, toggleCalls, toggleArg, snap>>

chainVars == <<pc, loading, instances, message, results, widget, steps,
               failedAt, caught, errorCalls, overlayCalls, loginFetch,
               loginInstances>>

toggleVars == <<toggleCalls, toggleArg, snap>>

----------------------------------------------------------------------------
(* Bounds of the model.                                                    *)

\* Longest list of CL records in one category.
MaxCls == 2

\* Longest list of allowed instances a fetch resolves with.
MaxInstances == 2

\* Longest message of an error, in tokens.
MaxErrLen == 3

\* Most calls of setOverlayVisible in the toggle specification.
MaxToggles == 3

----------------------------------------------------------------------------
(* Values.                                                                 *)

\* All sequences over S of length at most n.
SeqsUpTo(S, n) == UNION {[1..k -> S] : k \in 0..n}

Tokens == {"a", "b"}

Texts == SeqsUpTo(Tokens, MaxErrLen)

\* config.LOGIN_PROMPT and config.NO_HOST_ALLOWED: two marker substrings.
LOGIN_PROMPT == <<"a", "b">>

NO_HOST_ALLOWED == <<"b", "a">>

\* messages.NO_CLS_MESSAGE.
NO_CLS_MESSAGE == "No CLs"

\* messages.SECTION_ORDERING: the attention categories in priority order.
SECTION_ORDERING == <<"needsReview", "isOwner", "stale">>

Categories == {SECTION_ORDERING[i] : i \in DOMAIN SECTION_ORDERING}

\* CL records, as the fetch layer hands them over.
Changelists ==
  { [author |-> "alice", description |-> "fix"],
    [author |-> "bob",   description |-> "feature"] }

ClLists == SeqsUpTo(Changelists, MaxCls)

\* The values SearchResults.getCategoryMap can return: a map from some of
\* the attention categories to a list of CL records.
CategoryMaps == UNION {[D -> ClLists] : D \in SUBSET Categories}

\* The {host, name} pairs gerrit.fetchAllowedInstances resolves with.
Instances ==
  { [host |-> "https://h1", name |-> "one"],
    [host |-> "https://h2", name |-> "two"] }

InstanceLists == SeqsUpTo(Instances, MaxInstances)

\* What a promise of the chain can be rejected with: a string, or an Error
\* object with a message.
Errors == [kind : {"string", "Error"}, msg : Texts]

NoError == [kind |-> "none", msg |-> <<>>]

NoMessage == [name |-> "none", args |-> <<>>]

\* A link left in the login panel by the static page.
StaleLink == [href |-> "stale", text |-> "stale"]

----------------------------------------------------------------------------
(* Pure helpers.                                                           *)

\* String.prototype.includes.
Includes(s, sub) ==
  \E i \in 0..(Len(s) - Len(sub)) : SubSeq(s, i + 1, i + Len(sub)) = sub

\* String(error): a string is itself, an Error object is "Error: " + message.
StringOf(error) ==
  IF error.kind = "Error" THEN <<"Error: ">> \o error.msg ELSE error.msg

\* Hosts, mapped back to front.
HostsReversed(insts) ==
  [i \in DOMAIN insts |-> insts[Len(insts) + 1 - i].host]

\* instances.map(function(instance) { return instance.host; })
Hosts(insts) == [i \in DOMAIN insts |-> insts[i].host]

----------------------------------------------------------------------------
(* The widget tree.                                                        *)

\* ChangelistWidget.wrap / the constructor: the widget refers to the record.
ChangelistWidgetWrap(cl) == [cl_ |-> cl]

\* SectionWidget's constructor.
NewSectionWidget(attention) == [attention_ |-> attention, cls_ |-> <<>>]

\* addChangelist with unshift in place of push.
AddChangelistFront(section, cl) == [section EXCEPT !.cls_ = <<cl>> \o @]

\* SectionWidget.addChangelist.
AddChangelist(section, cl) == [section EXCEPT !.cls_ = Append(@, cl)]

\* The forEach of SectionWidget.create, from index i on.
RECURSIVE WrapFrom(_, _, _)
WrapFrom(section, cls, i) ==
  IF i > Len(cls) THEN section
  ELSE WrapFrom(AddChangelist(section, ChangelistWidgetWrap(cls[i])), cls, i + 1)

\* SectionWidget.create.
SectionWidgetCreate(attention, cls) ==
  WrapFrom(NewSectionWidget(attention), cls, 1)

\* The null section, which SectionWidget.create never returns.
Null == [attention_ |-> "null", cls_ |-> <<>>]

\* PopupWidget.addSection.
AddSection(sections, section) ==
  IF section # Null THEN Append(sections, section) ELSE sections

\* The forEach of PopupWidget.create over SECTION_ORDERING, from index i on.
RECURSIVE CreateFrom(_, _, _)
CreateFrom(sections, categories, i) ==
  IF i > Len(SECTION_ORDERING) THEN sections
  ELSE LET attention == SECTION_ORDERING[i]
       IN  CreateFrom(
             IF attention \in DOMAIN categories
               THEN AddSection(sections,
                      SectionWidgetCreate(attention, categories[attention]))
               ELSE sections,
             categories, i + 1)

\* PopupWidget.create.
PopupWidgetCreate(categories) == CreateFrom(<<>>, categories, 1)

\* ChangelistWidget.getStatusMarker: always the empty class.
GetStatusMarker(w) == ""

\* ChangelistWidget.render: one row.
ChangelistRender(w) ==
  [ class       |-> "changelist",
    marker      |-> <<GetStatusMarker(w), "marker">>,
    author      |-> w.cl_.author,
    description |-> w.cl_.description ]

\* messages.POPUP_SECTION_DATA[attention].className.
ClassName(attention) == <<attention, "section">>

\* messages.POPUP_SECTION_DATA[attention].formatHeader(count).
FormatHeader(attention, count) == [label |-> attention, count |-> count]

\* SectionWidget.render: the header, then the rows in the order of cls_.
SectionRender(section) ==
  [ className |-> ClassName(section.attention_),
    header    |-> FormatHeader(section.attention_, Len(section.cls_)),
    rows      |-> [i \in DOMAIN section.cls_ |->
                     ChangelistRender(section.cls_[i])] ]

\* PopupWidget.render, as far as its first k sections.
PopupRender(sections, k) == [i \in 1..k |-> SectionRender(sections[i])]

----------------------------------------------------------------------------
(* The page.                                                               *)

FlagNames == {"overlay", "results", "login", "permissions"}

Flags(d) == [n \in FlagNames |-> d[n]]

\* setElementVisibility.
SetElementVisibility(d, identifier, visible) ==
  [d EXCEPT ![identifier] = visible]

\* setOverlayText.
SetOverlayText(d, value) == [d EXCEPT !.overlayText = value]

\* setGrantPermissionsButtonVisible.
SetGrantPermissionsButtonVisible(d, visible) ==
  LET e == SetElementVisibility(d, "permissions", visible)
  IN  IF visible THEN [e EXCEPT !.permissionsListeners = @ + 1] ELSE e

\* setLoginLinkVisible, its synchronous part: the fetch it starts when
\* visible is the action LoginFetchResolved / LoginFetchRejected.
SetLoginLinkVisible(d, visible) ==
  LET e == SetElementVisibility(d, "login", visible)
  IN  IF ~visible THEN e ELSE [e EXCEPT !.loginChildren = <<>>]

\* setOverlayVisible flipping the results container instead of setting it.
SetOverlayVisibleFlipping(d, visible) ==
  IF visible
    THEN [d EXCEPT !.overlay = TRUE, !.results = ~@]
    ELSE SetLoginLinkVisible(
           SetGrantPermissionsButtonVisible(
             [d EXCEPT !.overlay = FALSE, !.results = ~@], FALSE),
           FALSE)

\* setOverlayVisible that leaves the login and permissions panels alone.
SetOverlayVisibleKeepsPanels(d, visible) ==
  IF visible
    THEN [d EXCEPT !.overlay = TRUE, !.results = FALSE]
    ELSE [d EXCEPT !.overlay = FALSE, !.results = TRUE]

\* setOverlayVisible.
SetOverlayVisible(d, visible) ==
  IF visible
    THEN [d EXCEPT !.overlay = TRUE, !.results = FALSE]
    ELSE SetLoginLinkVisible(
           SetGrantPermissionsButtonVisible(
             [d EXCEPT !.overlay = FALSE, !.results = TRUE], FALSE),
           FALSE)

\* displayError that sets the text and the panels and forgets the overlay.
DisplayErrorDomNoOverlay(d, error) ==
  LET error_string == StringOf(error)
  IN  SetGrantPermissionsButtonVisible(
        SetLoginLinkVisible(
          SetOverlayText(d, error_string),
          Includes(error_string, LOGIN_PROMPT)),
        Includes(error_string, NO_HOST_ALLOWED))

\* displayError with the second check as an else-branch of the first.
DisplayErrorDomExclusive(d, error) ==
  LET error_string == StringOf(error)
      login == Includes(error_string, LOGIN_PROMPT)
  IN  SetGrantPermissionsButtonVisible(
        SetLoginLinkVisible(
          SetOverlayVisible(SetOverlayText(d, error_string), TRUE),
          login),
        ~login /\ Includes(error_string, NO_HOST_ALLOWED))

\* displayError, its effect on the page.
DisplayErrorDom(d, error) ==
  LET error_string == StringOf(error)
  IN  SetGrantPermissionsButtonVisible(
        SetLoginLinkVisible(
          SetOverlayVisible(SetOverlayText(d, error_string), TRUE),
          Includes(error_string, LOGIN_PROMPT)),
        Includes(error_string, NO_HOST_ALLOWED))

\* widget.render(DomBuilder.attach(results)), as far as k sections.
AttachSections(d, sections, k) ==
  [d EXCEPT !.resultsChildren = @ \o PopupRender(sections, k)]

\* renderWidget without the test for an empty widget.
RenderWidgetDomAlways(d, sections) ==
  SetOverlayVisible(AttachSections(d, sections, Len(sections)), FALSE)

\* renderWidget, its effect on the page when nothing throws.
RenderWidgetDom(d, sections) ==
  IF Len(sections) = 0
    THEN SetOverlayVisible(SetOverlayText(d, <<NO_CLS_MESSAGE, ".">>), TRUE)
    ELSE SetOverlayVisible(AttachSections(d, sections, Len(sections)), FALSE)

\* The login links the second fetch builds: one div holding one link per
\* instance.
LoginLinks(insts) ==
  [i \in DOMAIN insts |-> [href |-> insts[i].host, text |-> insts[i].name]]

\* The pages popup.html can start as: every display combination, an empty
\* results container, a login panel empty or holding a stale link.
InitialPages ==
  [ overlay : BOOLEAN, results : BOOLEAN, login : BOOLEAN,
    permissions : BOOLEAN,
    overlayText : {<<>>},
    resultsChildren : {<<>>},
    loginChildren : {<<>>, << <<StaleLink>> >>},
    permissionsListeners : {0} ]

----------------------------------------------------------------------------
(* The chain started by onLoaded:                                          *)
(*   getMainWidget().then(renderWidget).catch(displayError)                *)

StepOrder ==
  <<"displayLoading", "fetchAllowedInstances", "sendMessage", "create",
    "render">>

Init ==
  /\ pc = "init"
  /\ dom \in InitialPages
  /\ loading = FALSE
  /\ instances = <<>>
  /\ message = NoMessage
  /\ results = <<>>
  /\ widget = <<>>
  /\ steps = <<>>
  /\ failedAt = "none"
  /\ caught = NoError
  /\ errorCalls = 0
  /\ overlayCalls = FALSE
  /\ loginFetch = "none"
  /\ loginInstances = <<>>
  /\ toggleCalls = 0
  /\ toggleArg = <<>>
  /\ snap = <<>>

\* A promise of the chain is rejected at `step`: the values its callbacks
\* held go out of scope, the rejection travels to the catch.
Reject(step) ==
  /\ pc' = "rejected"
  /\ failedAt' = step
  /\ instances' = <<>>
  /\ message' = NoMessage
  /\ results' = <<>>
  /\ widget' = <<>>

\* onLoaded up to the first suspension: getMainWidget shows the loading
\* indicator and getSearchResults starts the allowed-hosts fetch.
OnLoaded ==
  /\ pc = "init"
  /\ loading' = TRUE
  /\ steps' = <<"displayLoading", "fetchAllowedInstances">>
  /\ pc' = "fetchHosts"
  /\ UNCHANGED <<dom, instances, message, results, widget, failedAt, caught,
                 errorCalls, overlayCalls, loginFetch, loginInstances>>
  /\ UNCHANGED toggleVars

\* The allowed-hosts fetch resolves: the hosts are mapped out of the
\* instances and the getSearchResults message is sent.
HostsResolved ==
  /\ pc = "fetchHosts"
  /\ \E insts \in InstanceLists :
       /\ instances' = insts
       /\ message' = [name |-> "getSearchResults", args |-> Hosts(insts)]
  /\ steps' = Append(steps, "sendMessage")
  /\ pc' = "search"
  /\ UNCHANGED <<dom, loading, results, widget, failedAt, caught, errorCalls,
                 overlayCalls, loginFetch, loginInstances>>
  /\ UNCHANGED toggleVars

\* The allowed-hosts fetch is rejected.
HostsRejected ==
  /\ pc = "fetchHosts"
  /\ Reject("fetchAllowedInstances")
  /\ UNCHANGED <<dom, loading, steps, caught, errorCalls, overlayCalls,
                 loginFetch, loginInstances>>
  /\ UNCHANGED toggleVars

\* The response of the background page arrives and is wrapped into a
\* SearchResults, whose category map is m.
SearchResolved ==
  /\ pc = "search"
  /\ \E m \in CategoryMaps : results' = m
  /\ instances' = <<>>
  /\ message' = NoMessage
  /\ pc' = "wrapped"
  /\ UNCHANGED <<dom, loading, widget, steps, failedAt, caught, errorCalls,
                 overlayCalls, loginFetch, loginInstances>>
  /\ UNCHANGED toggleVars

\* The getSearchResults request is rejected.
SearchRejected ==
  /\ pc = "search"
  /\ Reject("sendMessage")
  /\ UNCHANGED <<dom, loading, steps, caught, errorCalls, overlayCalls,
                 loginFetch, loginInstances>>
  /\ UNCHANGED toggleVars

\* The response arrives and wrapping it throws.
WrapFailed ==
  /\ pc = "search"
  /\ Reject("wrap")
  /\ UNCHANGED <<dom, loading, steps, caught, errorCalls, overlayCalls,
                 loginFetch, loginInstances>>
  /\ UNCHANGED toggleVars

\* .then(PopupWidget.create)
Create ==
  /\ pc = "wrapped"
  /\ widget' = PopupWidgetCreate(results)
  /\ steps' = Append(steps, "create")
  /\ pc' = "built"
  /\ UNCHANGED <<dom, loading, instances, message, results, failedAt, caught,
                 errorCalls, overlayCalls, loginFetch, loginInstances>>
  /\ UNCHANGED toggleVars

\* PopupWidget.create throws.
CreateFailed ==
  /\ pc = "wrapped"
  /\ steps' = Append(steps, "create")
  /\ Reject("create")
  /\ UNCHANGED <<dom, loading, caught, errorCalls, overlayCalls, loginFetch,
                 loginInstances>>
  /\ UNCHANGED toggleVars

\* renderWidget chained after the catch: it also runs once displayError
\* has returned.
RenderWidgetAfterCatch ==
  /\ pc \in {"built", "error"}
  /\ dom' = RenderWidgetDom(dom, widget)
  /\ overlayCalls' = TRUE
  /\ steps' = IF pc = "built" THEN Append(steps, "render") ELSE steps
  /\ pc' = "rendered"
  /\ UNCHANGED <<loading, instances, message, results, widget, failedAt,
                 caught, errorCalls, loginFetch, loginInstances>>
  /\ UNCHANGED toggleVars

\* .then(renderWidget), nothing throws.
RenderWidget ==
  /\ pc = "built"
  /\ dom' = RenderWidgetDom(dom, widget)
  /\ overlayCalls' = TRUE
  /\ steps' = Append(steps, "render")
  /\ pc' = "rendered"
  /\ UNCHANGED <<loading, instances, message, results, widget, failedAt,
                 caught, errorCalls, loginFetch, loginInstances>>
  /\ UNCHANGED toggleVars

\* renderWidget throws: widget.render fails while it emits section k + 1,
\* after k sections were emitted into the results container and before the
\* overlay is touched.
RenderFailed ==
  /\ pc = "built"
  /\ \E k \in 0..(Len(widget) - 1) : dom' = AttachSections(dom, widget, k)
  /\ steps' = Append(steps, "render")
  /\ Reject("render")
  /\ UNCHANGED <<loading, caught, errorCalls, overlayCalls, loginFetch,
                 loginInstances>>
  /\ UNCHANGED toggleVars

\* .catch(displayError): the rejection, whatever its reason, is displayed;
\* setLoginLinkVisible(true) starts the second allowed-hosts fetch.
DisplayError ==
  /\ pc = "rejected"
  /\ \E error \in Errors :
       /\ dom' = DisplayErrorDom(dom, error)
       /\ caught' = error
       /\ loginFetch' = IF Includes(StringOf(error), LOGIN_PROMPT)
                          THEN "pending" ELSE loginFetch
  /\ errorCalls' = errorCalls + 1
  /\ overlayCalls' = TRUE
  /\ pc' = "error"
  /\ UNCHANGED <<loading, instances, message, results, widget, steps,
                 failedAt, loginInstances>>
  /\ UNCHANGED toggleVars

\* The second allowed-hosts fetch resolves: the links are built.
LoginFetchResolved ==
  /\ loginFetch = "pending"
  /\ \E insts \in InstanceLists :
       /\ loginInstances' = insts
       /\ dom' = [dom EXCEPT !.loginChildren = Append(@, LoginLinks(insts))]
  /\ loginFetch' = "resolved"
  /\ UNCHANGED <<pc, loading, instances, message, results, widget, steps,
                 failedAt, caught, errorCalls, overlayCalls>>
  /\ UNCHANGED toggleVars

\* The second fetch with a .catch(displayError) attached.
LoginFetchRejectedReported ==
  /\ loginFetch = "pending"
  /\ loginFetch' = "rejected"
  /\ \E error \in Errors :
       /\ dom' = DisplayErrorDom(dom, error)
       /\ caught' = error
  /\ errorCalls' = errorCalls + 1
  /\ UNCHANGED <<pc, loading, instances, message, results, widget, steps,
                 failedAt, overlayCalls, loginInstances>>
  /\ UNCHANGED toggleVars

\* The second allowed-hosts fetch is rejected: no handler is attached.
LoginFetchRejected ==
  /\ loginFetch = "pending"
  /\ loginFetch' = "rejected"
  /\ UNCHANGED <<pc, dom, loading, instances, message, results, widget,
                 steps, failedAt, caught, errorCalls, overlayCalls,
                 loginInstances>>
  /\ UNCHANGED toggleVars

Next ==
  \/ OnLoaded
  \/ HostsResolved
  \/ HostsRejected
  \/ SearchResolved
  \/ SearchRejected
  \/ WrapFailed
  \/ Create
  \/ CreateFailed
  \/ RenderWidget
  \/ RenderFailed
  \/ DisplayError
  \/ LoginFetchResolved
  \/ LoginFetchRejected

Spec == Init /\ [][Next]_vars

----------------------------------------------------------------------------
(* setOverlayVisible on its own: any page, any sequence of calls.          *)

\* The pages setOverlayVisible can be called on.
TogglePages ==
  [ overlay : BOOLEAN, results : BOOLEAN, login : BOOLEAN,
    permissions : BOOLEAN,
    overlayText : {<<>>, <<NO_CLS_MESSAGE, ".">>, LOGIN_PROMPT},
    resultsChildren : {<<>>},
    loginChildren : {<<>>, << <<StaleLink>> >>},
    permissionsListeners : {0} ]

InitToggle ==
  /\ pc = "toggle"
  /\ dom \in TogglePages
  /\ loading = FALSE
  /\ instances = <<>>
  /\ message = NoMessage
  /\ results = <<>>
  /\ widget = <<>>
  /\ steps = <<>>
  /\ failedAt = "none"
  /\ caught = NoError
  /\ errorCalls = 0
  /\ overlayCalls = FALSE
  /\ loginFetch = "none"
  /\ loginInstances = <<>>
  /\ toggleCalls = 0
  /\ toggleArg = <<>>
  /\ snap = <<>>

\* One call setOverlayVisible(visible); snap keeps the flags the page had
\* when the call was made, toggleArg the arguments so far.
ToggleOverlay ==
  /\ toggleCalls < MaxToggles
  /\ \E visible \in BOOLEAN :
       /\ dom' = SetOverlayVisible(dom, visible)
       /\ toggleArg' = Append(toggleArg, visible)
  /\ snap' = Flags(dom)
  /\ toggleCalls' = toggleCalls + 1
  /\ overlayCalls' = TRUE
  /\ UNCHANGED <<pc, loading, instances, message, results, widget, steps,
                 failedAt, caught, errorCalls, loginFetch, loginInstances>>

NextToggle == ToggleOverlay

SpecToggle == InitToggle /\ [][NextToggle]_vars

----------------------------------------------------------------------------
(* The properties.                                                         *)

\* The place of an attention category in SECTION_ORDERING.
Priority(attention) ==
  CHOOSE i \in DOMAIN SECTION_ORDERING : SECTION_ORDERING[i] = attention

\* The categories of a map that hold at least one CL.
NonEmptyCategories(categories) ==
  {c \in DOMAIN categories : categories[c] # <<>>}

\* C1: the widget PopupWidget.create builds has exactly one section per
\* non-empty category of the map, the sections follow SECTION_ORDERING, and
\* no section belongs to a category absent from the map.
C1_OneSectionPerNonEmptyCategory ==
  pc = "built" =>
    /\ Len(widget) = Cardinality(NonEmptyCategories(results))
    /\ \A j \in DOMAIN widget :
         widget[j].attention_ \in NonEmptyCategories(results)
    /\ \A i, j \in DOMAIN widget :
         i < j => Priority(widget[i].attention_) < Priority(widget[j].attention_)

\* C2: a rejection at any step of the chain is caught once by displayError
\* and ends in the error state: overlay visible with the string form of the
\* error, results container hidden, whatever was emitted into it.
C2_RejectionEndsInErrorState ==
  /\ errorCalls <= 1
  /\ failedAt # "none" => pc \in {"rejected", "error"}
  /\ pc = "rejected" => errorCalls = 0 /\ ENABLED DisplayError
  /\ pc = "error" =>
       /\ errorCalls = 1
       /\ failedAt # "none"
       /\ dom.overlay
       /\ ~dom.results
       /\ dom.overlayText = StringOf(caught)

\* C2 witness: displayError ran after renderWidget failed with sections
\* already emitted into the results container.
C2_Witness ==
  /\ pc = "error"
  /\ failedAt = "render"
  /\ dom.resultsChildren # <<>>

\* C3: after displayError the login panel is visible exactly when the
\* error string contains the login marker, and the permissions panel
\* exactly when it contains the no-host marker, independently.
C3_PanelsFollowMarkers ==
  pc = "error" =>
    /\ dom.login <=> Includes(StringOf(caught), LOGIN_PROMPT)
    /\ dom.permissions <=> Includes(StringOf(caught), NO_HOST_ALLOWED)

\* C3 witness: an error string with both markers, both panels visible.
C3_Witness ==
  /\ pc = "error"
  /\ Includes(StringOf(caught), LOGIN_PROMPT)
  /\ Includes(StringOf(caught), NO_HOST_ALLOWED)
  /\ dom.login
  /\ dom.permissions

\* C4: once renderWidget has returned, a widget with zero sections leaves
\* the overlay visible with the no-CLs message, the results container hidden
\* and empty; otherwise every section is in the results container, the
\* overlay is hidden and the results container shown.
C4_OverlayIffNoSections ==
  pc = "rendered" =>
    /\ dom.overlay <=> Len(widget) = 0
    /\ dom.results <=> Len(widget) # 0
    /\ Len(widget) = 0 =>
         /\ dom.overlayText = <<NO_CLS_MESSAGE, ".">>
         /\ dom.resultsChildren = <<>>
    /\ Len(dom.resultsChildren) = Len(widget)
    /\ \A j \in DOMAIN widget :
         dom.resultsChildren[j].className = ClassName(widget[j].attention_)

\* C4 witness: renderWidget returned for a widget without sections.
C4_Witness ==
  /\ pc = "rendered"
  /\ Len(widget) = 0
  /\ dom.overlay

\* C5: the steps start in the order loading indicator, allowed-hosts
\* fetch, getSearchResults message, build, render; the message carries the
\* hosts of the fetched instances in order; no step starts after an earlier
\* one was rejected.
C5_StrictOrder ==
  /\ Len(steps) <= Len(StepOrder)
  /\ \A i \in DOMAIN steps : steps[i] = StepOrder[i]
  /\ (Len(steps) >= 1) <=> loading
  /\ pc = "init" => Len(steps) = 0
  /\ pc = "fetchHosts" => Len(steps) = 2
  /\ pc = "search" =>
       /\ Len(steps) = 3
       /\ message.name = "getSearchResults"
       /\ Len(message.args) = Len(instances)
       /\ \A i \in DOMAIN instances : message.args[i] = instances[i].host
  /\ pc # "search" => message = NoMessage
  /\ pc = "wrapped" => Len(steps) = 3
  /\ pc = "built" => Len(steps) = 4
  /\ pc = "rendered" => Len(steps) = 5
  /\ failedAt = "fetchAllowedInstances" => Len(steps) = 2
  /\ failedAt \in {"sendMessage", "wrap"} => Len(steps) = 3
  /\ failedAt = "create" => Len(steps) = 4
  /\ failedAt = "render" => Len(steps) = 5
  /\ Len(steps) < 5 => dom.resultsChildren = <<>>

\* C5 witness: the message is in flight with two different hosts.
C5_Witness ==
  /\ pc = "search"
  /\ Len(instances) = 2
  /\ instances[1] # instances[2]

\* C6: every section holds one ChangelistWidget per record of its
\* category, in the order of the input list, and render emits the rows in
\* that order after a header formatted from the number of CLs.
C6_SectionKeepsOrder ==
  /\ pc \in {"built", "rendered"} =>
       \A j \in DOMAIN widget :
         LET cls == results[widget[j].attention_]
         IN  /\ Len(widget[j].cls_) = Len(cls)
             /\ \A i \in DOMAIN cls : widget[j].cls_[i].cl_ = cls[i]
  /\ pc = "rendered" /\ Len(widget) > 0 =>
       \A j \in DOMAIN widget :
         LET cls == results[widget[j].attention_]
             out == dom.resultsChildren[j]
         IN  /\ out.header = FormatHeader(widget[j].attention_, Len(cls))
             /\ Len(out.rows) = Len(cls)
             /\ \A i \in DOMAIN cls :
                  /\ out.rows[i].author = cls[i].author
                  /\ out.rows[i].description = cls[i].description

\* C6 witness: a rendered section with two different CLs.
C6_Witness ==
  /\ pc = "rendered"
  /\ \E j \in DOMAIN widget :
       /\ Len(widget[j].cls_) = 2
       /\ widget[j].cls_[1] # widget[j].cls_[2]
       /\ Len(dom.resultsChildren[j].rows) = 2

\* C7: a call of setOverlayVisible with the argument of the call before it
\* leaves the display flags as that call left them.
C7_ToggleIdempotent ==
  (toggleCalls >= 2 /\ toggleArg[toggleCalls] = toggleArg[toggleCalls - 1])
    => Flags(dom) = snap

\* C7 witness: setOverlayVisible(false) twice on a page whose first call
\* had the overlay showing.
C7_Witness ==
  /\ toggleCalls = 3
  /\ toggleArg = <<TRUE, FALSE, FALSE>>
  /\ ~dom.overlay

\* The state of the popup's state machine.
PopupState ==
  CASE pc = "rendered" -> "rendered"
    [] pc = "error"    -> "error"
    [] OTHER           -> "loading"

\* C8: the popup starts in loading, leaves it at most once, to rendered
\* (renderWidget returned, displayError never ran) or to error (displayError
\* ran once, after a rejection), and never leaves rendered or error.
C8_StateMachine ==
  /\ PopupState = "loading"
  /\ [](/\ PopupState = "loading" => errorCalls = 0
        /\ PopupState = "rendered" => errorCalls = 0 /\ failedAt = "none"
        /\ PopupState = "error" => errorCalls = 1 /\ failedAt # "none")
  /\ [][/\ PopupState # "loading" => PopupState' = PopupState
        /\ errorCalls' # errorCalls =>
             PopupState = "loading" /\ PopupState' = "error"
        /\ PopupState' = "rendered" /\ PopupState # "rendered" =>
             pc = "built"]_vars

\* C8 witness: the popup left loading for error after the search request
\* was rejected.
C8_Witness ==
  /\ pc = "error"
  /\ failedAt = "sendMessage"
  /\ errorCalls = 1

\* C9: showing the login panel empties it at once; the second fetch later
\* adds one link per instance in order; a rejected second fetch changes
\* nothing: no second displayError, the page as displayError left it, the
\* login panel visible and empty.
C9_LoginFetchFailureIgnored ==
  /\ [](/\ loginFetch # "none" <=>
             (pc = "error" /\ Includes(StringOf(caught), LOGIN_PROMPT))
        /\ loginFetch \in {"pending", "rejected"} =>
             dom.login /\ dom.loginChildren = <<>>
        /\ loginFetch = "resolved" =>
             /\ dom.login
             /\ Len(dom.loginChildren) = 1
             /\ Len(dom.loginChildren[1]) = Len(loginInstances)
             /\ \A i \in DOMAIN loginInstances :
                  /\ dom.loginChildren[1][i].href = loginInstances[i].host
                  /\ dom.loginChildren[1][i].text = loginInstances[i].name
        /\ loginFetch = "rejected" =>
             /\ errorCalls = 1
             /\ dom.overlay
             /\ ~dom.results
             /\ dom.overlayText = StringOf(caught)
             /\ dom.permissions <=>
                  Includes(StringOf(caught), NO_HOST_ALLOWED))
  /\ [][loginFetch' = "rejected" =>
          /\ dom' = dom
          /\ errorCalls' = errorCalls
          /\ caught' = caught
          /\ pc' = pc]_vars

\* C9 witness: the second fetch was rejected.
C9_Witness ==
  /\ loginFetch = "rejected"
  /\ dom.login
  /\ dom.loginChildren = <<>>

\* C10: once setOverlayVisible has been called, exactly one of the overlay
\* and the results container is visible, and the login and permissions
\* panels are visible only with the overlay, never with the results.
C10_PanelsOnlyWithOverlay ==
  overlayCalls =>
    /\ dom.overlay # dom.results
    /\ dom.login => dom.overlay
    /\ dom.permissions => dom.overlay
    /\ dom.results => ~dom.login /\ ~dom.permissions

\* C10 witness: the results are shown and both panels are hidden.
C10_Witness ==
  /\ overlayCalls
  /\ pc = "rendered"
  /\ dom.results
  /\ ~dom.login
  /\ ~dom.permissions

============================================================================
